---- MODULE Spec2Model ----
(***************************************************************************)
(* The speech-synthesis request handlers of the repository:                *)
(*   - tts, the Modal endpoint of src/modal-llm/piper/tts.py               *)
(*   - TTSHandler.do_GET / do_POST / generate_speech of src/piper/server.py*)
(*   - chat_completions and LlamaModel.generate of src/modal_llama.py, under*)
(*     a specification of their own (LlamaSpec)                            *)
(* Each request is a little state machine                                  *)
(*   idle -> temp -> spawn -> read -> unlink -> done                       *)
(* over a shared file system of temporary files.  The steps of different   *)
(* requests interleave freely.                                             *)
(***************************************************************************)
EXTENDS Integers, Sequences, FiniteSets, TLC

(***************************************************************************)
(* Bounds of the model.                                                    *)
(***************************************************************************)
\* Number of requests handled (each on its own handler thread / task).
NumReqs == 2
\* Number of names the temporary directory can hand out.
NumPaths == 2
\* The subordinate process writes up to MinAudioSize + MaxExtra bytes.
MaxExtra == 2

Reqs == 1..NumReqs
Paths == 1..NumPaths

(***************************************************************************)
(* Program constants.                                                      *)
(***************************************************************************)
\* tts.py:106  `len(audio_data) < 100`
MinAudioSize == 100
\* tts.py:116  "sample_rate": 22050
SampleRate == 22050
\* modal_llama.py:74  `min(max_tokens, 1024)`
MaxNewTokens == 1024
\* modal_llama.py:103  `request.get("max_tokens", 512)`
DefaultMaxTokens == 512
\* modal_llama.py:104  `request.get("temperature", 0.7)`, in hundredths
DefaultTemperature == 70
\* modal_llama.py:75  `max(temperature, 0.01)`, in hundredths
MinTemperature == 1

(***************************************************************************)
(* Values.  A string is a sequence of one-character strings.  A JSON value *)
(* of a request is a record [type, val]; Missing is the absent key.        *)
(***************************************************************************)
Str(s) == [type |-> "str", val |-> s]
Null == [type |-> "null", val |-> <<>>]
Num(d) == [type |-> "number", val |-> d]
Missing == [type |-> "missing", val |-> <<>>]

\* Python truthiness of a JSON value (`not text` is its negation):
\* None, "" and 0 are falsy.
Truthy(v) ==
    CASE v.type = "str" -> Len(v.val) > 0
      [] v.type = "number" -> v.val # <<"0">>
      [] v.type = "list" -> Len(v.val) > 0
      [] v.type = "int" -> v.val # 0
      [] OTHER -> FALSE

\* dict.get(key, default)
Get(v, default) == IF v.type = "missing" THEN default ELSE v

UpperCase == <<"A", "B", "M", "Y", "R", "C", "E", "Z", "O", "H", "I">>
LowerCase == <<"a", "b", "m", "y", "r", "c", "e", "z", "o", "h", "i">>

\* str.lower() on one character
LowerChar(c) ==
    IF \E i \in 1..Len(UpperCase) : UpperCase[i] = c
    THEN LowerCase[CHOOSE i \in 1..Len(UpperCase) : UpperCase[i] = c]
    ELSE c

\* str.lower()
Lower(s) == [i \in 1..Len(s) |-> LowerChar(s[i])]

\* str.strip(): what "empty after trimming" refers to
RECURSIVE LStrip(_)
LStrip(s) == IF s # <<>> /\ Head(s) = " " THEN LStrip(Tail(s)) ELSE s
RECURSIVE RStrip(_)
RStrip(s) ==
    IF s # <<>> /\ s[Len(s)] = " " THEN RStrip(SubSeq(s, 1, Len(s) - 1)) ELSE s
Strip(s) == RStrip(LStrip(s))

(***************************************************************************)
(* base64.b64encode / b64decode over sequences of bytes (0..255).          *)
(***************************************************************************)
B64Alphabet ==
    << "A","B","C","D","E","F","G","H","I","J","K","L","M","N","O","P",
       "Q","R","S","T","U","V","W","X","Y","Z","a","b","c","d","e","f",
       "g","h","i","j","k","l","m","n","o","p","q","r","s","t","u","v",
       "w","x","y","z","0","1","2","3","4","5","6","7","8","9","+","/" >>

ByteAt(bs, i) == IF i <= Len(bs) THEN bs[i] ELSE 0

\* B64Char with the padding forgotten: a missing byte is encoded as zero bits.
B64CharUnpadded(bs, k, j) ==
    LET b1 == ByteAt(bs, 3 * k - 2)
        b2 == ByteAt(bs, 3 * k - 1)
        b3 == ByteAt(bs, 3 * k)
        six == CASE j = 1 -> b1 \div 4
                 [] j = 2 -> (b1 % 4) * 16 + (b2 \div 16)
                 [] j = 3 -> (b2 % 16) * 4 + (b3 \div 64)
                 [] OTHER -> b3 % 64
    IN  B64Alphabet[six + 1]

\* The j-th (1..4) character of the k-th 3-byte group of bs.
B64Char(bs, k, j) ==
    LET b1 == ByteAt(bs, 3 * k - 2)
        b2 == ByteAt(bs, 3 * k - 1)
        b3 == ByteAt(bs, 3 * k)
        six == CASE j = 1 -> b1 \div 4
                 [] j = 2 -> (b1 % 4) * 16 + (b2 \div 16)
                 [] j = 3 -> (b2 % 16) * 4 + (b3 \div 64)
                 [] OTHER -> b3 % 64
    IN  IF (j = 3 /\ 3 * k - 1 > Len(bs)) \/ (j = 4 /\ 3 * k > Len(bs))
        THEN "="
        ELSE B64Alphabet[six + 1]

B64Encode(bs) ==
    [n \in 1..(4 * ((Len(bs) + 2) \div 3)) |->
        B64Char(bs, ((n - 1) \div 4) + 1, ((n - 1) % 4) + 1)]

B64Index(c) ==
    IF c = "=" THEN 0 ELSE (CHOOSE i \in 1..64 : B64Alphabet[i] = c) - 1

B64Pad(cs) ==
    IF Len(cs) = 0 THEN 0
    ELSE IF cs[Len(cs) - 1] = "=" THEN 2
    ELSE IF cs[Len(cs)] = "=" THEN 1 ELSE 0

B64Decode(cs) ==
    [n \in 1..(3 * (Len(cs) \div 4) - B64Pad(cs)) |->
        LET k == ((n - 1) \div 3) + 1
            j == ((n - 1) % 3) + 1
            c1 == B64Index(cs[4 * k - 3])
            c2 == B64Index(cs[4 * k - 2])
            c3 == B64Index(cs[4 * k - 1])
            c4 == B64Index(cs[4 * k])
        IN  CASE j = 1 -> c1 * 4 + (c2 \div 16)
              [] j = 2 -> (c2 % 16) * 16 + (c3 \div 4)
              [] OTHER -> (c3 % 4) * 64 + c4]

(***************************************************************************)
(* The inputs of the model.                                                *)
(***************************************************************************)
Amy == <<"a", "m", "y">>
Bryce == <<"b", "r", "y", "c", "e">>
Hi == <<"H", "i">>
Blank == <<" ">>

\* The "text" member of a tts request / of a JSON body posted to /tts.
JsonTexts == {Missing, Str(<<>>), Str(Blank), Str(Hi), Num(<<"5">>)}
\* The "voice" member of a tts request.
JsonVoices == {Missing, Str(<<"B", "r", "y", "c", "e">>), Str(<<"z", "o", "e">>), Null}
\* The tts requests of the model, as <<text, voice>>: every voice with a plain
\* text, every text without a voice, and an empty text with a null voice.
TtsRequests ==
    ({Str(Hi)} \X JsonVoices) \cup (JsonTexts \X {Missing}) \cup {<<Str(<<>>), Null>>}

\* What a subordinate process wrote to its error stream (bytes): text that
\* decodes as UTF-8, or bytes that do not.
\* len is the number of bytes written.
Utf8(t) == [valid |-> TRUE, text |-> t, len |-> Len(t)]
BadBytes == [valid |-> FALSE, text |-> "\\xff", len |-> 1]

\* The cap on diagnostic text ("a few KB"), and an error stream longer than it:
\* the text stands for DiagnosticCap + 1 bytes of output.
DiagnosticCap == 4096
Verbose == [valid |-> TRUE, text |-> "model load failed, again and again", len |-> DiagnosticCap + 1]

Stderrs == {Utf8(""), Utf8("model load failed"), BadBytes, Verbose}

\* A byte string of a file is named by [src, len]: the len bytes the process
\* serving request src writes.  Bytes gives the bytes themselves.  Distinct names
\* are distinct byte strings.
NoBytes == [src |-> 0, len |-> 0]
Content(r, n) == IF n = 0 THEN NoBytes ELSE [src |-> r, len |-> n]
Bytes(b) == [i \in 1..b.len |-> (37 * i + 101 * b.src) % 256]
ByteLen(b) == Len(Bytes(b))

\* A file: absent, or present with its bytes.
Absent == [exists |-> FALSE, data |-> NoBytes]
File(b) == [exists |-> TRUE, data |-> b]
Sizes == {0, MinAudioSize - 1} \cup (MinAudioSize..(MinAudioSize + MaxExtra))

(***************************************************************************)
(* The Voice Registry of tts.                                              *)
(***************************************************************************)
\* tts.py:74-77
model_map ==
    (Amy :> "/root/voices/en_US-amy-medium.onnx")
        @@ (Bryce :> "/root/voices/en_US-bryce-medium.onnx")

\* tts.py:78  model_map.get(voice_key, model_map["amy"])
ResolveModel(voice_key) ==
    IF voice_key \in DOMAIN model_map THEN model_map[voice_key] ELSE model_map[Amy]

\* server.py:19
VOICE_MODEL == "voice.onnx"

(***************************************************************************)
(* Responses.  A response is [status, error, audio, size, voice, format,  *)
(* sample_rate, body]; an error message is a sequence of its parts.        *)
(***************************************************************************)
ErrorResponse(status, msg) ==
    [status |-> status, error |-> msg, audio |-> <<>>, size |-> 0, voice |-> <<>>,
     format |-> "", sample_rate |-> 0, body |-> NoBytes, sent |-> "all"]

\* base64.b64encode of the byte strings of the model, computed once
Blobs == {Content(r, n) : r \in Reqs, n \in Sizes}
B64Encoded == [b \in Blobs |-> B64Encode(Bytes(b))]
\* base64.b64decode of the encodings of the model, computed once
B64Decoded == [cs \in {B64Encoded[b] : b \in Blobs} |-> B64Decode(cs)]

\* tts.py:109-120, the dict returned on success (elapsed is not modelled)
JsonAudioResponse(audio_data, voice_key) ==
    [status |-> 200, error |-> <<>>, audio |-> B64Encoded[audio_data],
     size |-> ByteLen(audio_data), voice |-> voice_key, format |-> "wav",
     sample_rate |-> SampleRate, body |-> NoBytes, sent |-> "all"]

\* server.py:115-119, the audio/wav response; sent = "headers" when the write of
\* the body (line 119) failed
BinaryAudioResponse(audio_data, sent) ==
    [status |-> 200, error |-> <<>>, audio |-> <<>>, size |-> 0, voice |-> <<>>,
     format |-> "audio/wav", sample_rate |-> 0,
     body |-> IF sent = "all" THEN audio_data ELSE NoBytes, sent |-> sent]

\* server.py:34-38, the reply of /health: {"status": "ok"}.  state is the
\* "status" member of the JSON object, voices its "voices" member.
HealthResponse ==
    [status |-> 200, error |-> <<>>, audio |-> <<>>, size |-> 0, voice |-> <<>>,
     format |-> "application/json", sample_rate |-> 0, body |-> NoBytes, sent |-> "all",
     state |-> "ok", voices |-> Missing]

\* A JSON list.
List(vs) == [type |-> "list", val |-> vs]

\* HealthVoices with a voice of the registry left out.
HealthVoicesStale == <<Amy>>

\* tts.py:132, the voices the health function lists
HealthVoices == <<Amy, Bryce>>

\* tts.py:132, the dict health returns
TtsHealthResponse ==
    [status |-> 200, error |-> <<>>, audio |-> <<>>, size |-> 0, voice |-> <<>>,
     format |-> "application/json", sample_rate |-> 0, body |-> NoBytes, sent |-> "all",
     state |-> "ok", voices |-> List(HealthVoices)]

\* str(e) of the exceptions the handlers meet
MsgNoTemp == <<"[Errno 28] No space left on device">>
MsgNoBinary == <<"[Errno 2] No such file or directory: 'piper'">>
MsgNoRead == <<"[Errno 5] Input/output error">>
MsgDecode == <<"'utf-8' codec can't decode byte 0xff in position 0">>
MsgNotStr == <<"object has no attribute 'encode'">>
MsgPipe == <<"[Errno 32] Broken pipe">>

(***************************************************************************)
(* Requests to server.py.                                                  *)
(***************************************************************************)
\* The raw value of the text parameter of a query string or form body.
QueryTexts == {Missing, Str(<<>>), Str(<<"+">>), Str(Hi)}

\* urllib.parse.parse_qs on the text parameter: blank values are dropped,
\* "+" decodes to a space; then `.get("text", [""])[0]`
UnquotePlus(s) == [i \in 1..Len(s) |-> IF s[i] = "+" THEN " " ELSE s[i]]
ParseQsText(q) ==
    IF q.type = "missing" \/ q.val = <<>> THEN Str(<<>>) ELSE Str(UnquotePlus(q.val))

GetRequests ==
    {[route |-> "/health", body |-> "query", text |-> Missing],
     [route |-> "/other", body |-> "query", text |-> Str(Hi)]}
        \cup {[route |-> "/tts", body |-> "query", text |-> q] : q \in QueryTexts}

\* body: a JSON object, another JSON value, a form body, bytes that are not
\* UTF-8, or any body under a Content-Length header that is not a number.
PostRequests ==
    {[route |-> "/other", body |-> "json", text |-> Str(Hi)],
     [route |-> "/tts", body |-> "json_list", text |-> Missing],
     [route |-> "/tts", body |-> "bad_utf8", text |-> Missing],
     [route |-> "/tts", body |-> "bad_length", text |-> Str(Hi)]}
        \cup {[route |-> "/tts", body |-> "json", text |-> t] : t \in JsonTexts \cup {Null}}
        \cup {[route |-> "/tts", body |-> "form", text |-> q] : q \in QueryTexts}

(***************************************************************************)
(* Requests to chat_completions (src/modal_llama.py).                      *)
(***************************************************************************)
\* A JSON number with an integer value (a temperature is held in hundredths).
Integer(n) == [type |-> "int", val |-> n]

\* One chat message.
UserMessage == [role |-> "user", content |-> Hi]

\* The "messages", "max_tokens" and "temperature" members of a request.
ChatMessages == {Missing, Null, List(<<>>), List(<<UserMessage>>), Str(Hi)}
ChatMaxTokens ==
    {Missing, Null, Integer(0), Integer(MaxNewTokens), Integer(MaxNewTokens + 1)}
ChatTemperatures == {Missing, Integer(0)}
\* The requests of the model, as <<messages, max_tokens, temperature>>: a list of
\* messages with every max_tokens and temperature, every other messages value
\* with the defaults, and no messages with a max_tokens above the cap.
ChatRequests ==
    ({List(<<UserMessage>>)} \X ChatMaxTokens \X ChatTemperatures)
        \cup (ChatMessages \X {Missing} \X {Missing})
        \cup {<<Missing, Integer(MaxNewTokens + 1), Missing>>}

\* chat_completions before a request: no locals, generate not invoked, nothing
\* passed to the engine, nothing returned.
NoChat ==
    [pc |-> "idle", request |-> <<>>, messages |-> Missing, max_tokens |-> Missing,
     temperature |-> Missing, calls |-> 0, sampling |-> <<>>, engine |-> <<>>,
     result |-> "", resp |-> <<>>, outcome |-> "none"]

(***************************************************************************)
(* State.                                                                  *)
(***************************************************************************)
VARIABLES
    service,  \* which program serves: "modal" (tts.py) or "piper" (server.py)
    pc,       \* pc[r]: where request r's handler stands
    req,      \* req[r]: the request as received
    lcl,      \* lcl[r]: the handler's local variables
    resp,     \* resp[r]: the responses written for r, in order
    outcome,  \* outcome[r]: how the handling of r ended
    fs,       \* fs[p]: the file named p of the temporary directory
    owner,    \* owner[p]: the request whose handler created the file p (0: none)
    gh,       \* gh[r]: history of r (processes spawned, files created, ...)
    chat,     \* chat[r]: the chat request r: where its handler stands, its locals,
              \* the calls of generate and of the engine made for it, its response
    tokenizer \* LlamaModel.tokenizer: "none" until a request loads it

ttsVars == <<service, pc, req, lcl, resp, outcome, fs, owner, gh>>
chatVars == <<chat, tokenizer>>
vars == <<service, pc, req, lcl, resp, outcome, fs, owner, gh, chat, tokenizer>>

NoRequest == [handler |-> "none", route |-> "", body |-> "", text |-> Missing, voice |-> Missing]

NoLocals ==
    [text |-> Missing, voice_key |-> <<>>, model_path |-> "", output_path |-> 0,
     returncode |-> 0, stderr |-> Utf8(""), audio_data |-> NoBytes]

NoHistory ==
    [spawns |-> 0, spawn_model |-> "", wrote |-> Absent, created |-> 0,
     read_owner |-> 0, unlink_owner |-> 0]

Init ==
    /\ service \in {"modal", "piper"}
    /\ pc = [r \in Reqs |-> "idle"]
    /\ req = [r \in Reqs |-> NoRequest]
    /\ lcl = [r \in Reqs |-> NoLocals]
    /\ resp = [r \in Reqs |-> <<>>]
    /\ outcome = [r \in Reqs |-> "none"]
    /\ fs = [p \in Paths |-> Absent]
    /\ owner = [p \in Paths |-> 0]
    /\ gh = [r \in Reqs |-> NoHistory]
    /\ chat = [r \in Reqs |-> NoChat]
    /\ tokenizer = "none"

InFlight(r) == pc[r] \notin {"idle", "done", "closed"}

\* The handler of r returns rs with outcome out (or, with out = "Escaped", is left
\* by an exception nothing caught).
Finish(r, out, rs) ==
    /\ pc' = [pc EXCEPT ![r] = "done"]
    /\ outcome' = [outcome EXCEPT ![r] = out]
    /\ resp' = [resp EXCEPT ![r] = resp[r] \o rs]

(***************************************************************************)
(* The subordinate process (piper) as the handlers see it: it is given a   *)
(* model and an output file, and ends with an exit code, having written    *)
(* (or not, or removed) the output file and some bytes on its error stream.*)
(***************************************************************************)
\* What the process leaves in its output file: on success some bytes (none, too
\* few, or enough); a process that fails leaves the file as it was created.
ProcOutputs(r, exit) ==
    IF exit = 0
    THEN {File(Content(r, n)) : n \in Sizes}
    ELSE {File(NoBytes)}

\* subprocess.run([... "--model", model, "--output_file", p ...]) by r's handler
RunProcess(r, model, p, exit, out, err) ==
    /\ fs' = [fs EXCEPT ![p] = out]
    /\ UNCHANGED owner
    /\ gh' = [gh EXCEPT ![r].spawns = @ + 1, ![r].spawn_model = model, ![r].wrote = out]
    /\ lcl' = [lcl EXCEPT ![r].returncode = exit, ![r].stderr = err]

\* tempfile.NamedTemporaryFile(suffix=".wav", delete=False): a new, empty file
\* under a name no existing file has.
FreeNames == {p \in Paths : ~fs[p].exists}

\* MakeTemp without the exclusive creation: a name in use may be handed out again.
MakeTempAnyName(r, p) ==
    /\ fs' = [fs EXCEPT ![p] = File(NoBytes)]
    /\ owner' = [owner EXCEPT ![p] = r]
    /\ lcl' = [lcl EXCEPT ![r].output_path = p]
    /\ gh' = [gh EXCEPT ![r].created = p]

MakeTemp(r, p) ==
    /\ p \in FreeNames
    /\ fs' = [fs EXCEPT ![p] = File(NoBytes)]
    /\ owner' = [owner EXCEPT ![p] = r]
    /\ lcl' = [lcl EXCEPT ![r].output_path = p]
    /\ gh' = [gh EXCEPT ![r].created = p]

(***************************************************************************)
(* tts (src/modal-llm/piper/tts.py)                                        *)
(***************************************************************************)
\* tts.py:70  `if not text`
TtsTextMissing(text) == ~Truthy(text)

\* tts.py:106  `if not audio_data or len(audio_data) < 100`
TtsTooSmall(audio_data) == ByteLen(audio_data) = 0 \/ ByteLen(audio_data) < MinAudioSize

\* tts.py:66-80: read the request, reject a missing text, resolve the voice.
\* None of it is inside the try block, so an exception here leaves the handler.
TtsReceive(r) ==
    /\ service = "modal"
    /\ pc[r] = "idle"
    /\ \E rq \in TtsRequests :
        LET t == rq[1]
            v == rq[2]
            text == Get(t, Str(<<>>))
            voice == Get(v, Str(Amy))
            voice_key == Lower(voice.val)
        IN  /\ req' = [req EXCEPT ![r] = [handler |-> "tts", route |-> "", body |-> "json",
                                          text |-> t, voice |-> v]]
            /\ \/ /\ voice.type # "str"           \* line 68: .lower() of a non-string
                  /\ Finish(r, "Escaped", <<>>)
                  /\ UNCHANGED lcl
               \/ /\ voice.type = "str"
                  /\ TtsTextMissing(text)         \* line 70-71
                  /\ Finish(r, "MissingText", <<ErrorResponse(400, <<"text required">>)>>)
                  /\ UNCHANGED lcl
               \/ /\ voice.type = "str"
                  /\ ~TtsTextMissing(text)
                  /\ text.type # "str"            \* line 80: text[:50] of a number
                  /\ Finish(r, "Escaped", <<>>)
                  /\ UNCHANGED lcl
               \/ /\ voice.type = "str"
                  /\ ~TtsTextMissing(text)
                  /\ text.type = "str"
                  /\ lcl' = [lcl EXCEPT ![r].text = text, ![r].voice_key = voice_key,
                                        ![r].model_path = ResolveModel(voice_key)]
                  /\ pc' = [pc EXCEPT ![r] = "temp"]
                  /\ UNCHANGED <<resp, outcome>>
    /\ UNCHANGED <<service, fs, owner, gh>>
    /\ UNCHANGED chatVars

\* tts.py:124-127: `except Exception as e: return {"error": str(e)}, 500`
TtsUnexpected(r, msg) == Finish(r, "UnexpectedError", <<ErrorResponse(500, msg)>>)

\* tts.py:84-85
TtsCreateTemp(r) ==
    /\ service = "modal"
    /\ pc[r] = "temp"
    /\ \/ /\ \E p \in Paths : MakeTemp(r, p)
          /\ pc' = [pc EXCEPT ![r] = "spawn"]
          /\ UNCHANGED <<resp, outcome>>
       \/ /\ TtsUnexpected(r, MsgNoTemp)         \* OSError from the file system
          /\ UNCHANGED <<lcl, fs, owner, gh>>
    /\ UNCHANGED <<service, req>>
    /\ UNCHANGED chatVars

\* TtsProcessError that runs the process again instead of answering.
TtsProcessErrorRetry(r, err) ==
    /\ pc' = [pc EXCEPT ![r] = "spawn"]
    /\ UNCHANGED <<resp, outcome>>

\* tts.py:121-123: `except subprocess.CalledProcessError as e`
TtsProcessError(r, err) ==
    IF err.valid
    THEN Finish(r, "ProcessFailed",
                <<ErrorResponse(500, <<"TTS process failed: ", err.text>>)>>)
    ELSE Finish(r, "Escaped", <<>>)   \* line 122: e.stderr.decode() raises in the handler

\* tts.py:88-99: subprocess.run(cmd, input=..., capture_output=True, check=True)
TtsRunPiper(r) ==
    /\ service = "modal"
    /\ pc[r] = "spawn"
    /\ \/ /\ TtsUnexpected(r, MsgNoBinary)       \* the binary cannot be launched
          /\ UNCHANGED <<lcl, fs, owner, gh>>
       \/ \E exit \in {0, 1}, err \in Stderrs :
            \E out \in ProcOutputs(r, exit) :
                /\ RunProcess(r, lcl[r].model_path, lcl[r].output_path, exit, out, err)
                /\ IF exit # 0                   \* check=True
                   THEN TtsProcessError(r, err)
                   ELSE /\ pc' = [pc EXCEPT ![r] = "read"]
                        /\ UNCHANGED <<resp, outcome>>
    /\ UNCHANGED <<service, req>>
    /\ UNCHANGED chatVars

\* TtsRead that takes a file it cannot read for an empty one.
TtsReadLenient(r) ==
    /\ service = "modal"
    /\ pc[r] = "read"
    /\ LET p == lcl[r].output_path
       IN  \/ /\ fs[p].exists
              /\ lcl' = [lcl EXCEPT ![r].audio_data = fs[p].data]
              /\ gh' = [gh EXCEPT ![r].read_owner = owner[p]]
           \/ /\ lcl' = [lcl EXCEPT ![r].audio_data = NoBytes]
              /\ UNCHANGED gh
    /\ pc' = [pc EXCEPT ![r] = "unlink"]
    /\ UNCHANGED <<service, req, fs, owner, resp, outcome>>
    /\ UNCHANGED chatVars

\* tts.py:101-102
TtsRead(r) ==
    /\ service = "modal"
    /\ pc[r] = "read"
    /\ LET p == lcl[r].output_path
       IN  \/ /\ fs[p].exists
              /\ lcl' = [lcl EXCEPT ![r].audio_data = fs[p].data]
              /\ gh' = [gh EXCEPT ![r].read_owner = owner[p]]
              /\ pc' = [pc EXCEPT ![r] = "unlink"]
              /\ UNCHANGED <<resp, outcome>>
           \/ /\ TtsUnexpected(r, MsgNoRead)     \* OSError: open() or read() fails
              /\ UNCHANGED <<lcl, gh>>
    /\ UNCHANGED <<service, req, fs, owner>>
    /\ UNCHANGED chatVars

\* TtsRespond with a fixed message for audio that is too small.
TtsRespondGeneric(r) ==
    IF TtsTooSmall(lcl[r].audio_data)
    THEN Finish(r, "ValidationFailed", <<ErrorResponse(500, <<"generation failed">>)>>)
    ELSE Finish(r, "Succeeded",
                <<JsonAudioResponse(lcl[r].audio_data, lcl[r].voice_key)>>)

\* tts.py:106-120: the size check and the response
TtsRespond(r) ==
    LET audio_data == lcl[r].audio_data
        err == lcl[r].stderr
    IN  IF TtsTooSmall(audio_data)
        THEN IF err.valid
             THEN Finish(r, "ValidationFailed",
                         <<ErrorResponse(500, <<"Generated audio too small. Stderr: ",
                                                err.text>>)>>)
             ELSE TtsUnexpected(r, MsgDecode)    \* line 107: stderr.decode() raises
        ELSE Finish(r, "Succeeded", <<JsonAudioResponse(audio_data, lcl[r].voice_key)>>)

\* tts.py:104-120: os.unlink(output_path), then the size check and the response
TtsUnlink(r) ==
    /\ service = "modal"
    /\ pc[r] = "unlink"
    /\ LET p == lcl[r].output_path
       IN  /\ gh' = [gh EXCEPT ![r].unlink_owner = owner[p]]
           /\ fs' = [fs EXCEPT ![p] = Absent]
           /\ owner' = [owner EXCEPT ![p] = 0]
    /\ TtsRespond(r)
    /\ UNCHANGED <<service, req, lcl>>
    /\ UNCHANGED chatVars

\* tts.py:129-132: health()
TtsHealth(r) ==
    /\ service = "modal"
    /\ pc[r] = "idle"
    /\ req' = [req EXCEPT ![r] = [handler |-> "health", route |-> "/health",
                                  body |-> "query", text |-> Missing, voice |-> Missing]]
    /\ Finish(r, "Health", <<TtsHealthResponse>>)
    /\ UNCHANGED <<service, lcl, fs, owner, gh>>
    /\ UNCHANGED chatVars

(***************************************************************************)
(* TTSHandler (src/piper/server.py).  socketserver.TCPServer (line 136)    *)
(* handles one request at a time, each with a handler object of its own    *)
(* that is dropped when the request is over.                               *)
(***************************************************************************)
\* server.py:136-138: the server loop takes the next request when no handler runs
SrvAccepts(r) ==
    /\ service = "piper"
    /\ pc[r] = "idle"
    /\ \A q \in Reqs \ {r} : pc[q] \in {"idle", "closed"}

\* server.py:45 and 69  `if not text`
SrvTextMissing(text) == ~Truthy(text)

\* server.py:30-52
SrvReceiveGet(r) ==
    /\ SrvAccepts(r)
    /\ \E rq \in GetRequests :
        LET text == ParseQsText(rq.text)        \* lines 42-43
        IN  /\ req' = [req EXCEPT ![r] = [handler |-> "get", route |-> rq.route,
                                          body |-> rq.body, text |-> rq.text,
                                          voice |-> Missing]]
            /\ \/ /\ rq.route = "/health"       \* lines 33-39
                  /\ Finish(r, "Health", <<HealthResponse>>)
                  /\ UNCHANGED lcl
               \/ /\ rq.route = "/tts"
                  /\ SrvTextMissing(text)       \* lines 45-47
                  /\ Finish(r, "MissingText",
                            <<ErrorResponse(400, <<"Missing text parameter">>)>>)
                  /\ UNCHANGED lcl
               \/ /\ rq.route = "/tts"
                  /\ ~SrvTextMissing(text)      \* line 49
                  /\ lcl' = [lcl EXCEPT ![r].text = text, ![r].model_path = VOICE_MODEL]
                  /\ pc' = [pc EXCEPT ![r] = "temp"]
                  /\ UNCHANGED <<resp, outcome>>
               \/ /\ rq.route \notin {"/health", "/tts"}   \* line 52
                  /\ Finish(r, "NotFound", <<ErrorResponse(404, <<"Not found">>)>>)
                  /\ UNCHANGED lcl
    /\ UNCHANGED <<service, fs, owner, gh>>
    /\ UNCHANGED chatVars

\* server.py:62-67: the text of a posted body.  A body that is no JSON object
\* makes the try block raise, and the text is then looked up in the body parsed
\* as a form.
PostText(rq) ==
    IF rq.body = "json" THEN Get(rq.text, Str(<<>>)) ELSE ParseQsText(rq.text)

\* server.py:54-73
SrvReceivePost(r) ==
    /\ SrvAccepts(r)
    /\ \E rq \in PostRequests :
        LET text == PostText(rq)
        IN  /\ req' = [req EXCEPT ![r] = [handler |-> "post", route |-> rq.route,
                                          body |-> rq.body, text |-> rq.text,
                                          voice |-> Missing]]
            /\ \/ /\ rq.route # "/tts"          \* lines 55-57
                  /\ Finish(r, "NotFound", <<ErrorResponse(404, <<"Not found">>)>>)
                  /\ UNCHANGED lcl
               \/ /\ rq.route = "/tts"
                  /\ rq.body = "bad_length"     \* line 59: int() raises ValueError
                  /\ Finish(r, "Escaped", <<>>)
                  /\ UNCHANGED lcl
               \/ /\ rq.route = "/tts"
                  /\ rq.body = "bad_utf8"       \* line 66: decode() raises in the except
                  /\ Finish(r, "Escaped", <<>>)
                  /\ UNCHANGED lcl
               \/ /\ rq.route = "/tts"
                  /\ rq.body \notin {"bad_length", "bad_utf8"}
                  /\ SrvTextMissing(text)       \* lines 69-71
                  /\ Finish(r, "MissingText", <<ErrorResponse(400, <<"Missing text">>)>>)
                  /\ UNCHANGED lcl
               \/ /\ rq.route = "/tts"
                  /\ rq.body \notin {"bad_length", "bad_utf8"}
                  /\ ~SrvTextMissing(text)      \* line 73
                  /\ lcl' = [lcl EXCEPT ![r].text = text, ![r].model_path = VOICE_MODEL]
                  /\ pc' = [pc EXCEPT ![r] = "temp"]
                  /\ UNCHANGED <<resp, outcome>>
    /\ UNCHANGED <<service, fs, owner, gh>>
    /\ UNCHANGED chatVars

\* server.py:121-123: `except Exception as e: self.send_error(500, str(e))`
SrvUnexpected(r, msg) == Finish(r, "UnexpectedError", <<ErrorResponse(500, msg)>>)

\* server.py:76-88: the two os.path.exists checks, then the temporary file
SrvCreateTemp(r) ==
    /\ service = "piper"
    /\ pc[r] = "temp"
    /\ \/ /\ Finish(r, "Unavailable", <<ErrorResponse(500, <<"Piper not installed">>)>>)
          /\ UNCHANGED <<lcl, fs, owner, gh>>
       \/ /\ Finish(r, "Unavailable", <<ErrorResponse(500, <<"Voice model not found">>)>>)
          /\ UNCHANGED <<lcl, fs, owner, gh>>
       \/ /\ \E p \in Paths : MakeTemp(r, p)
          /\ pc' = [pc EXCEPT ![r] = "spawn"]
          /\ UNCHANGED <<resp, outcome>>
       \/ /\ SrvUnexpected(r, MsgNoTemp)         \* OSError from the file system
          /\ UNCHANGED <<lcl, fs, owner, gh>>
    /\ UNCHANGED <<service, req>>
    /\ UNCHANGED chatVars

\* server.py:102-105: `if process.returncode != 0`
SrvProcessError(r, err) ==
    IF err.valid
    THEN Finish(r, "ProcessFailed", <<ErrorResponse(500, <<"TTS generation failed">>)>>)
    ELSE SrvUnexpected(r, MsgDecode)   \* line 103: stderr.decode() raises in the try

\* server.py:91-105: subprocess.run(..., input=text.encode(), capture_output=True)
SrvRunPiper(r) ==
    /\ service = "piper"
    /\ pc[r] = "spawn"
    /\ \/ /\ lcl[r].text.type # "str"           \* line 98: text.encode() of a number
          /\ SrvUnexpected(r, MsgNotStr)
          /\ UNCHANGED <<lcl, fs, owner, gh>>
       \/ /\ lcl[r].text.type = "str"
          /\ SrvUnexpected(r, MsgNoBinary)       \* the binary cannot be launched
          /\ UNCHANGED <<lcl, fs, owner, gh>>
       \/ /\ lcl[r].text.type = "str"
          /\ \E exit \in {0, 1}, err \in Stderrs :
              \E out \in ProcOutputs(r, exit) :
                /\ RunProcess(r, lcl[r].model_path, lcl[r].output_path, exit, out, err)
                /\ IF exit # 0
                   THEN SrvProcessError(r, err)
                   ELSE /\ pc' = [pc EXCEPT ![r] = "read"]
                        /\ UNCHANGED <<resp, outcome>>
    /\ UNCHANGED <<service, req>>
    /\ UNCHANGED chatVars

\* server.py:108-109
SrvRead(r) ==
    /\ service = "piper"
    /\ pc[r] = "read"
    /\ LET p == lcl[r].output_path
       IN  \/ /\ fs[p].exists
              /\ lcl' = [lcl EXCEPT ![r].audio_data = fs[p].data]
              /\ gh' = [gh EXCEPT ![r].read_owner = owner[p]]
              /\ pc' = [pc EXCEPT ![r] = "unlink"]
              /\ UNCHANGED <<resp, outcome>>
           \/ /\ SrvUnexpected(r, MsgNoRead)     \* OSError: open() or read() fails
              /\ UNCHANGED <<lcl, gh>>
    /\ UNCHANGED <<service, req, fs, owner>>
    /\ UNCHANGED chatVars

\* server.py:115-123: the response; the write of the body may fail (the client
\* has gone), and the except clause then calls send_error, which may fail too.
SrvRespond(r) ==
    \/ Finish(r, "Succeeded", <<BinaryAudioResponse(lcl[r].audio_data, "all")>>)
    \/ Finish(r, "UnexpectedError",
              <<BinaryAudioResponse(lcl[r].audio_data, "headers"),
                ErrorResponse(500, MsgPipe)>>)
    \/ Finish(r, "Escaped", <<BinaryAudioResponse(lcl[r].audio_data, "headers")>>)

\* server.py:112-119: os.unlink(output_file), then the response
SrvUnlink(r) ==
    /\ service = "piper"
    /\ pc[r] = "unlink"
    /\ LET p == lcl[r].output_path
       IN  /\ gh' = [gh EXCEPT ![r].unlink_owner = owner[p]]
           /\ fs' = [fs EXCEPT ![p] = Absent]
           /\ owner' = [owner EXCEPT ![p] = 0]
    /\ SrvRespond(r)
    /\ UNCHANGED <<service, req, lcl>>
    /\ UNCHANGED chatVars

\* The request is over: its handler object is dropped.
SrvClose(r) ==
    /\ service = "piper"
    /\ pc[r] = "done"
    /\ pc' = [pc EXCEPT ![r] = "closed"]
    /\ req' = [req EXCEPT ![r] = NoRequest]
    /\ lcl' = [lcl EXCEPT ![r] = NoLocals]
    /\ resp' = [resp EXCEPT ![r] = <<>>]
    /\ outcome' = [outcome EXCEPT ![r] = "none"]
    /\ gh' = [gh EXCEPT ![r] = NoHistory]
    /\ UNCHANGED <<service, fs, owner>>
    /\ UNCHANGED chatVars

Next ==
    \E r \in Reqs :
        \/ TtsReceive(r)
        \/ TtsCreateTemp(r)
        \/ TtsRunPiper(r)
        \/ TtsRead(r)
        \/ TtsUnlink(r)
        \/ TtsHealth(r)
        \/ SrvReceiveGet(r)
        \/ SrvReceivePost(r)
        \/ SrvCreateTemp(r)
        \/ SrvRunPiper(r)
        \/ SrvRead(r)
        \/ SrvUnlink(r)
        \/ SrvClose(r)

Spec == Init /\ [][Next]_vars

(***************************************************************************)
(* chat_completions and LlamaModel.generate (src/modal_llama.py).  Both    *)
(* take concurrent inputs (lines 38 and 94), so requests interleave; each  *)
(* request is a little state machine                                       *)
(*   idle -> call -> prompt -> sample -> engine -> return -> done          *)
(* and an exception in generate comes back through the remote call and     *)
(* leaves chat_completions, which catches nothing.                         *)
(***************************************************************************)
Min(a, b) == IF a <= b THEN a ELSE b
Max(a, b) == IF a >= b THEN a ELSE b

\* modal_llama.py:107, the error object
ChatError == [object |-> "error", error |-> "No messages provided", status |-> 400,
              content |-> ""]

\* modal_llama.py:117-137, the completion (id, created and usage are not modelled)
ChatCompletion(result) ==
    [object |-> "chat.completion", error |-> "", status |-> 0, content |-> result]

\* chat_completions ends: it returns rs, or is left by an exception.
ChatFinish(r, out, rs) ==
    chat' = [chat EXCEPT ![r].pc = "done", ![r].outcome = out, ![r].resp = rs]

\* modal_llama.py:102-107
ChatReceive(r) ==
    /\ chat[r].pc = "idle"
    /\ \E rq \in ChatRequests :
        LET m == rq[1]
            mt == rq[2]
            t == rq[3]
            messages == Get(m, List(<<>>))
            max_tokens == Get(mt, Integer(DefaultMaxTokens))
            temperature == Get(t, Integer(DefaultTemperature))
        IN  IF ~Truthy(messages)                \* line 106
            THEN chat' = [chat EXCEPT ![r].pc = "done", ![r].request = <<m, mt, t>>,
                                      ![r].outcome = "NoMessages",
                                      ![r].resp = <<ChatError>>]
            ELSE chat' = [chat EXCEPT ![r].pc = "call", ![r].request = <<m, mt, t>>,
                                      ![r].messages = messages,
                                      ![r].max_tokens = max_tokens,
                                      ![r].temperature = temperature]
    /\ UNCHANGED tokenizer
    /\ UNCHANGED ttsVars

\* modal_llama.py:109-114: model.generate.remote.aio(...)
ChatCallGenerate(r) ==
    /\ chat[r].pc = "call"
    /\ chat' = [chat EXCEPT ![r].pc = "prompt", ![r].calls = @ + 1]
    /\ UNCHANGED tokenizer
    /\ UNCHANGED ttsVars

\* modal_llama.py:65-71: the tokenizer is loaded by the first request; the chat
\* template raises on messages that are no list of messages
GenPrompt(r) ==
    /\ chat[r].pc = "prompt"
    /\ tokenizer' = "loaded"
    /\ IF chat[r].messages.type = "list"
       THEN chat' = [chat EXCEPT ![r].pc = "sample"]
       ELSE ChatFinish(r, "Escaped", <<>>)
    /\ UNCHANGED ttsVars

\* min(max_tokens, 1024) with the cap left out.
CapTokensNone(max_tokens) == max_tokens

\* modal_llama.py:74  min(max_tokens, 1024)
CapTokens(max_tokens) == Min(max_tokens, MaxNewTokens)

\* modal_llama.py:73-78: SamplingParams(max_tokens=min(...), temperature=max(...)).
\* min and max raise TypeError on None; SamplingParams is library code that may
\* refuse a max_tokens below 1.
GenSample(r) ==
    /\ chat[r].pc = "sample"
    /\ \/ /\ chat[r].max_tokens.type = "int"
          /\ chat[r].temperature.type = "int"
          /\ chat' = [chat EXCEPT
                        ![r].pc = "engine",
                        ![r].sampling =
                            <<[max_tokens |-> CapTokens(chat[r].max_tokens.val),
                               temperature |-> Max(chat[r].temperature.val,
                                                   MinTemperature)]>>]
       \/ /\ \/ chat[r].max_tokens.type # "int"
             \/ chat[r].temperature.type # "int"
             \/ chat[r].max_tokens.type = "int" /\ chat[r].max_tokens.val < 1
          /\ ChatFinish(r, "Escaped", <<>>)
    /\ UNCHANGED tokenizer
    /\ UNCHANGED ttsVars

\* modal_llama.py:80-88: engine.generate(prompt, sampling_params, request_id),
\* read until an output is finished (result_text stays "" if none is)
GenEngine(r) ==
    /\ chat[r].pc = "engine"
    /\ \E text \in {"", "Hello"} :
        chat' = [chat EXCEPT ![r].pc = "return",
                             ![r].engine = @ \o chat[r].sampling,
                             ![r].result = text]
    /\ UNCHANGED tokenizer
    /\ UNCHANGED ttsVars

\* modal_llama.py:117-137
ChatReturn(r) ==
    /\ chat[r].pc = "return"
    /\ ChatFinish(r, "Completed", <<ChatCompletion(chat[r].result)>>)
    /\ UNCHANGED tokenizer
    /\ UNCHANGED ttsVars

LlamaInit ==
    /\ service = "llama"
    /\ pc = [r \in Reqs |-> "idle"]
    /\ req = [r \in Reqs |-> NoRequest]
    /\ lcl = [r \in Reqs |-> NoLocals]
    /\ resp = [r \in Reqs |-> <<>>]
    /\ outcome = [r \in Reqs |-> "none"]
    /\ fs = [p \in Paths |-> Absent]
    /\ owner = [p \in Paths |-> 0]
    /\ gh = [r \in Reqs |-> NoHistory]
    /\ chat = [r \in Reqs |-> NoChat]
    /\ tokenizer = "none"

LlamaNext ==
    \E r \in Reqs :
        \/ ChatReceive(r)
        \/ ChatCallGenerate(r)
        \/ GenPrompt(r)
        \/ GenSample(r)
        \/ GenEngine(r)
        \/ ChatReturn(r)

LlamaSpec == LlamaInit /\ [][LlamaNext]_vars

(***************************************************************************)
(* Properties.                                                             *)
(***************************************************************************)
Done(r) == pc[r] = "done"

\* r is a synthesis request: a tts request, or a GET or POST of /tts.
Synthesis(r) ==
    \/ req[r].handler = "tts"
    \/ req[r].handler \in {"get", "post"} /\ req[r].route = "/tts"

\* The text a request carries, where the request can be read at all.
Readable(r) == req[r].body \in {"json", "json_list", "form", "query"}
RequestText(r) ==
    CASE req[r].handler = "tts" -> Get(req[r].text, Str(<<>>))
      [] req[r].handler = "post" -> PostText(req[r])
      [] OTHER -> ParseQsText(req[r].text)

\* Missing, empty or only whitespace.
BlankText(r) ==
    /\ Synthesis(r)
    /\ Readable(r)
    /\ RequestText(r).type = "str"
    /\ Strip(RequestText(r).val) = <<>>

\* The process of r has run and exited.
Exited(r) == gh[r].spawns > 0 /\ pc[r] \in {"read", "unlink", "done"}

\* The one response of r is an error of the given status.
AnswersError(r, status) ==
    /\ Len(resp[r]) = 1
    /\ resp[r][1].status = status
    /\ resp[r][1].error # <<>>

Contains(msg, t) == t = "" \/ \E i \in 1..Len(msg) : msg[i] = t

\* C1: once a synthesis request has reached a terminal state, the temporary
\* output file created for it no longer exists.
C1_TempFileGone ==
    \A r \in Reqs :
        (Done(r) /\ gh[r].created # 0)
            => ~(fs[gh[r].created].exists /\ owner[gh[r].created] = r)

\* C2: a request whose text is missing, empty or only whitespace is answered
\* with status 400, and no temporary file is created and no process spawned
\* for it.
\* (A request whose handler is left by an uncaught exception is the matter of
\* C9 and is not counted against this one.)
C2_BlankTextRejected ==
    \A r \in Reqs :
        (BlankText(r) /\ outcome[r] # "Escaped") =>
            /\ gh[r].spawns = 0
            /\ gh[r].created = 0
            /\ pc[r] \in {"idle", "done"}
            /\ Done(r) => AnswersError(r, 400)

\* C3: a request succeeds only if its process exited with code 0 and the bytes
\* read from the temporary file are at least the minimum size; a zero exit with
\* fewer bytes ends in a server error.
C3_SuccessNeedsPlausibleAudio ==
    \A r \in Reqs :
        /\ outcome[r] = "Succeeded" =>
                /\ gh[r].spawns = 1
                /\ lcl[r].returncode = 0
                /\ ByteLen(lcl[r].audio_data) >= MinAudioSize
        /\ (Done(r) /\ Exited(r) /\ lcl[r].returncode = 0
                /\ ByteLen(gh[r].wrote.data) < MinAudioSize)
              => AnswersError(r, 500)

\* C4: a request whose process exits with a non-zero code is answered with
\* status 500 and an error that contains what the process wrote to its error
\* stream.
\* (A request whose handler is left by an uncaught exception is the matter of
\* C9 and is not counted against this one.)
C4_FailureCarriesDiagnostic ==
    \A r \in Reqs :
        (Done(r) /\ Exited(r) /\ lcl[r].returncode # 0 /\ outcome[r] # "Escaped") =>
            /\ AnswersError(r, 500)
            /\ lcl[r].stderr.valid => Contains(resp[r][1].error, lcl[r].stderr.text)

\* The model path the Voice Registry is to give for a voice value: the path of
\* the lower-cased key when the table has it, the path of amy otherwise.
RegistryPath(v) ==
    LET key == IF v.type = "str" THEN Lower(v.val) ELSE Amy
    IN  IF key \in DOMAIN model_map THEN model_map[key] ELSE model_map[Amy]

\* C5: voice resolution in tts is total: whatever voice value the request
\* carries, a request with a non-empty text gets past it, and the process is
\* given the model path of the lower-cased key, or of amy when the key is
\* absent or unknown.
C5_VoiceResolutionTotal ==
    \A r \in Reqs :
        req[r].handler = "tts" =>
            /\ (Done(r) /\ Truthy(RequestText(r)) /\ RequestText(r).type = "str")
                  => ~(outcome[r] = "Escaped" /\ gh[r].created = 0)
            /\ gh[r].spawns > 0 => gh[r].spawn_model = RegistryPath(req[r].voice)

\* C6: the audio of a successful response is byte for byte what the process
\* left in the temporary file of the request: in JSON mode the decoded audio
\* field is those bytes and the size field their number, in binary mode the
\* body is those bytes.
C6_AudioByteIdentical ==
    \A r \in Reqs :
        outcome[r] = "Succeeded" =>
            /\ Len(resp[r]) = 1
            /\ req[r].handler = "tts" =>
                    /\ resp[r][1].audio \in DOMAIN B64Decoded
                    /\ B64Decoded[resp[r][1].audio] = Bytes(gh[r].wrote.data)
                    /\ resp[r][1].size = Len(Bytes(gh[r].wrote.data))
            /\ req[r].handler # "tts" =>
                    Bytes(resp[r][1].body) = Bytes(gh[r].wrote.data)

C6_Witness ==
    \E r \in Reqs :
        /\ outcome[r] = "Succeeded"
        /\ req[r].handler = "tts"
        /\ resp[r][1].size = MinAudioSize + 1

\* r holds a temporary file: it has created one and not yet deleted it.
HoldsTemp(r) == pc[r] \in {"spawn", "read", "unlink"}

\* C7: under any interleaving, two requests in flight never hold the same
\* temporary path, a request reads and deletes only the file it created, and
\* the audio of a request is what its own process wrote.
C7_RequestsIsolated ==
    \A r \in Reqs :
        /\ \A q \in Reqs \ {r} :
                (HoldsTemp(r) /\ HoldsTemp(q)) => lcl[r].output_path # lcl[q].output_path
        /\ HoldsTemp(r) => owner[lcl[r].output_path] = r
        /\ gh[r].read_owner \in {0, r}
        /\ gh[r].unlink_owner \in {0, r}
        /\ pc[r] = "unlink" => lcl[r].audio_data = gh[r].wrote.data
        /\ outcome[r] = "Succeeded" =>
                /\ lcl[r].audio_data = gh[r].wrote.data
                /\ lcl[r].audio_data.src \in {0, r}

C7_Witness ==
    \E r, q \in Reqs :
        /\ r # q
        /\ pc[r] = "read"
        /\ pc[q] = "unlink"
        /\ lcl[r].output_path # lcl[q].output_path

\* C8: a request spawns the subordinate process at most once.
C8_AtMostOneSpawn == \A r \in Reqs : gh[r].spawns <= 1

C8_Witness ==
    \E r \in Reqs :
        Done(r) /\ outcome[r] = "ProcessFailed" /\ gh[r].spawns = 1

\* C9: no exception escapes the handler of a synthesis request: every such
\* request ends in MissingText, Succeeded, ProcessFailed, ValidationFailed or
\* UnexpectedError, with a response.
TerminalStates ==
    {"MissingText", "Succeeded", "ProcessFailed", "ValidationFailed", "UnexpectedError"}

C9_NoExceptionEscapes ==
    \A r \in Reqs :
        (Done(r) /\ Synthesis(r)) =>
            /\ outcome[r] \in TerminalStates
            /\ Len(resp[r]) >= 1

\* r ended with a process that exited zero and audio that was read and is too
\* small.
TooSmallCase(r) ==
    /\ req[r].handler = "tts"
    /\ Done(r)
    /\ Exited(r)
    /\ lcl[r].returncode = 0
    /\ gh[r].unlink_owner # 0
    /\ TtsTooSmall(lcl[r].audio_data)

C11_VoiceFieldNamesModel ==
    \A r \in Reqs :
        (outcome[r] = "Succeeded" /\ req[r].handler = "tts") =>
            /\ resp[r][1].voice \in DOMAIN model_map
            /\ model_map[resp[r][1].voice] = gh[r].spawn_model

(***************************************************************************)
(* Progress.  A handler is a sequential piece of code run by its own       *)
(* worker: once a request is received, each of its steps is taken when it  *)
(* can be.  subprocess.run returns when the process has exited, which is   *)
(* assumed to happen; no fairness is asked of the arrival of requests.     *)
(***************************************************************************)
\* The steps of the handler of r after the request is received.
HandlerStep(r) ==
    \/ TtsCreateTemp(r)
    \/ TtsRunPiper(r)
    \/ TtsRead(r)
    \/ TtsUnlink(r)
    \/ SrvCreateTemp(r)
    \/ SrvRunPiper(r)
    \/ SrvRead(r)
    \/ SrvUnlink(r)
    \/ SrvClose(r)

FairSpec == Spec /\ \A r \in Reqs : WF_vars(HandlerStep(r))

\* The handler of r has answered: it ended in a terminal state of the request
\* lifecycle with a response written.
Answered(r) == Done(r) /\ outcome[r] \in TerminalStates /\ Len(resp[r]) >= 1

\* C12: every received synthesis request eventually reaches a terminal state
\* with a response written to the caller.
C12_EventuallyAnswered ==
    \A r \in Reqs : [](Synthesis(r) => <>Answered(r))

\* The half of C12 that the handlers keep: no handler waits forever, every
\* request in flight is eventually over (answered, or left by an exception).
C12_EventuallyOver ==
    \A r \in Reqs : InFlight(r) ~> ~InFlight(r)

(***************************************************************************)
(* The liveness endpoints.                                                 *)
(***************************************************************************)
Range(f) == {f[i] : i \in DOMAIN f}

\* r was a liveness request and has been handled.
HealthDone(r) == Done(r) /\ outcome[r] = "Health"

\* Handling r spawned no process and created no temporary file.
NoSideEffect(r) ==
    /\ gh[r] = NoHistory
    /\ \A p \in Paths : owner[p] # r

ReadFailed(r) ==
    /\ Done(r)
    /\ gh[r].spawns > 0
    /\ lcl[r].returncode = 0
    /\ gh[r].read_owner = 0

\* C14 as stated: an output file that cannot be read after exit code 0 ends the
\* request as a process failure, answered with a server error.
C14_ReadFailureIsProcessFailure ==
    \A r \in Reqs :
        ReadFailed(r) => outcome[r] = "ProcessFailed" /\ AnswersError(r, 500)

\* C14 as the code has it: the request ends as an unexpected error, answered
\* once with a server error whose message is the text of the exception, and
\* with no audio.
C14_ReadFailureIsUnexpected ==
    \A r \in Reqs :
        ReadFailed(r) =>
            /\ outcome[r] = "UnexpectedError"
            /\ AnswersError(r, 500)
            /\ resp[r][1].error = MsgNoRead
            /\ resp[r][1].audio = <<>>
            /\ resp[r][1].body = NoBytes

C14_Witness ==
    \E r \in Reqs :
        /\ ReadFailed(r)
        /\ gh[r].wrote.exists
        /\ gh[r].wrote.data.len >= MinAudioSize

(***************************************************************************)
(* The captured error stream.                                              *)
(***************************************************************************)
\* The response of r carries the text of the error stream of its process.
CarriesStderr(r) ==
    /\ Len(resp[r]) >= 1
    /\ lcl[r].stderr.text # ""
    /\ Contains(resp[r][Len(resp[r])].error, lcl[r].stderr.text)

\* C15: the diagnostic text the handler holds, and the one it places in an error
\* response, is never longer than the cap, whatever the process wrote.
C15_DiagnosticBounded ==
    \A r \in Reqs :
        /\ Exited(r) => lcl[r].stderr.len <= DiagnosticCap
        /\ (Done(r) /\ CarriesStderr(r)) => lcl[r].stderr.len <= DiagnosticCap

(***************************************************************************)
(* One response per request (server.py).                                   *)
(***************************************************************************)
\* C16: TTSHandler writes exactly one response per request, and once the 200
\* status line and headers of a success response are sent no error response
\* follows.  (A handler left by an exception writes none, which is C9's case
\* and is not counted here.)
C16_OneResponse ==
    \A r \in Reqs :
        (req[r].handler \in {"get", "post"} /\ Done(r)) =>
            /\ outcome[r] # "Escaped" => Len(resp[r]) = 1
            /\ \A i, j \in 1..Len(resp[r]) :
                 (i < j /\ resp[r][i].status = 200) => resp[r][j].error = <<>>

(***************************************************************************)
(* chat_completions.                                                       *)
(***************************************************************************)
\* The messages of the request of r, as chat_completions reads them (line 102).
RequestMessages(r) == Get(chat[r].request[1], List(<<>>))

\* C17: chat_completions never invokes generate for a request whose messages are
\* missing or empty (it returns the error object), invokes it exactly once for
\* any other request, and the max_tokens passed to the engine is at most 1024.
C17_GenerateGuardedAndCapped ==
    \A r \in Reqs :
        /\ chat[r].calls <= 1
        /\ (chat[r].pc # "idle" /\ ~Truthy(RequestMessages(r))) =>
                /\ chat[r].calls = 0
                /\ chat[r].pc = "done"
                /\ chat[r].resp = <<ChatError>>
                /\ chat[r].engine = <<>>
        /\ (chat[r].pc \notin {"idle", "call"} /\ Truthy(RequestMessages(r))) =>
                chat[r].calls = 1
        /\ Len(chat[r].engine) <= 1
        /\ \A i \in 1..Len(chat[r].engine) :
                chat[r].engine[i].max_tokens <= MaxNewTokens

\* A request asking for more than 1024 tokens was completed, and another one
\* without messages was refused.
C17_Witness ==
    \E r, q \in Reqs :
        /\ chat[r].pc = "done"
        /\ chat[r].outcome = "Completed"
        /\ chat[r].request[2] = Integer(MaxNewTokens + 1)
        /\ chat[r].engine[1].max_tokens = MaxNewTokens
        /\ chat[q].pc = "done"
        /\ chat[q].outcome = "NoMessages"
        /\ chat[q].request[1] = List(<<>>)

====
